---------------------------- MODULE Spec2Model ----------------------------
(***************************************************************************)
(* A model of the back-testing pipeline of the strategy repository:         *)
(*                                                                         *)
(*   - simulate_trade (backtest_stock_scanner_go.py) and the inline        *)
(*     10-day holding loop of run_backtest_on_file                         *)
(*     (strategy_c_backtest.py), walked one day per step       (Spec);     *)
(*   - process_file / main of backtest_stock_scanner_go.py: the worker     *)
(*     pool, the per-file try/except and the aggregation  (SpecDriver);    *)
(*   - calculate_indicators and the entry predicate of process_file,       *)
(*     evaluated on a series and on its truncation           (SpecInd).    *)
(*                                                                         *)
(* Prices are integers (cents).  The code computes in binary floating      *)
(* point; the model computes the same expressions in exact rational        *)
(* arithmetic: a percentage is a pair <<n, d>> with d > 0 standing for     *)
(* n/d, and NaN is the pair <<0, 0>>.                                      *)
(***************************************************************************)
EXTENDS Integers, Sequences, FiniteSets, TLC

VARIABLES
    \* ---- the trade simulators ----
    df,          \* the price series: a sequence of bars (df.iloc[i] is df[i+1])
    start_idx,   \* entry index (start_idx of simulate_trade, i of the inline loop)
    max_days,    \* the horizon (max_days; HOLD_DAYS for the inline loop)
    variant,     \* "go": simulate_trade, "c": the inline loop of strategy C
    pc,          \* "loop" | "done"
    day,         \* the loop variable: the day after entry being inspected
    max_price,   \* running peak (simulate_trade)
    ret,         \* the value simulate_trade returns, <<n, d>>
    reason,      \* how the walk ended: "open" | "stop" | "trail" | "expired"
    exit_idx,    \* index of the bar whose price decided the returned value
    final_ret,   \* inline loop: final_ret
    max_reach,   \* inline loop: max_reach
    is_stopped,  \* inline loop: is_stopped
    report       \* inline loop: the appended result row (rounded values, status)

VARIABLES
    \* ---- the backtest driver (process_file, main) ----
    files,       \* the universe: one descriptor per csv file, in glob order
    task_pc,     \* per file: where its process_file call stands
    scan_i,      \* per file: the loop variable i of process_file
    results,     \* per file: the local list "results" of process_file
    raw,         \* per file: the slot of Pool.map's result list
    finish_order,\* the files in the order their tasks completed (history)
    main_pc,     \* where main stands
    all_trades,  \* main: the flattened list
    summary      \* main: per holding period, the printed statistics

VARIABLES
    \* ---- indicators and the entry predicate ----
    px,          \* the series (all columns), a sequence of rows
    idx,         \* the index i the snapshot is taken at
    ind_pc,      \* "start" | "full" | "done" | "c" | "live"
    ind_full,    \* calculate_indicators(px), row idx
    ind_trunc,   \* calculate_indicators(px[0..idx]), row idx
    hit_full,    \* the entry predicate at idx on the full series
    hit_trunc,   \* the entry predicate at idx on the truncated series
    ind_c,       \* strategy C: calculate_indicators(px), row idx, and is_vol
    live         \* the live scanner: process_single_stock on px[0..idx]

VARIABLES
    \* ---- one signal's trade record (process_file) ----
    trade        \* per holding period already simulated: what simulate_trade gave

VARIABLES
    \* ---- the downloader (download_item) ----
    fs,          \* the data directory: per code, whether the file exists and its lines
    today,       \* datetime.now().date(), as a day number
    dl_ret,      \* per code: what the last download_item call returned
    dl_did,      \* per code: what that call did (history)
    dl_prior     \* per code: the file as that call found it (history)

simVars == <<df, start_idx, max_days, variant, pc, day, max_price, ret, reason,
             exit_idx, final_ret, max_reach, is_stopped, report>>
drvVars == <<files, task_pc, scan_i, results, raw, finish_order, main_pc, all_trades,
             summary>>
indVars == <<px, idx, ind_pc, ind_full, ind_trunc, hit_full, hit_trunc, ind_c, live>>

trdVars == <<trade>>
dlVars == <<fs, today, dl_ret, dl_did, dl_prior>>
auxVars == <<trdVars, dlVars>>

vars == <<simVars, drvVars, indVars, auxVars>>

-----------------------------------------------------------------------------
(* Bounds of the model *)

\* longest series whose bars are all drawn freely from Bars
MaxDense == 3
\* horizons 1..MaxHorizon are tried besides the configured HOLD_PERIODS
MaxHorizon == 2
\* number of bars of a sparse series beyond the inline loop's full window
SparseExtra == 1

\* number of csv files in the universe
NumFiles == 2
\* number of pool workers (cpu_count())
NumWorkers == 2

\* longest run of freely drawn rows after the flat prefix of a series
MaxTail == 4

\* the last calendar day the downloader runs on
MaxDay == 3

-----------------------------------------------------------------------------
(* Program constants *)

STOP_LOSS == -5
TRAILING_START == 10
STOP_LOSS_PCT == -5
HOLD_DAYS == 10
HOLD_PERIODS == {3, 5, 10, 20}
\* "if len(df) < 100: return []" (both backtests)
MIN_LEN == 100
\* "for i in range(60, len(df) - 20)"
SCAN_FIRST == 60
SCAN_TAIL == 20
\* strategy C: "start_idx = len(df) - LOOKBACK_WINDOW; if start_idx < 65: start_idx = 65"
LOOKBACK_WINDOW == 120
C_SCAN_FIRST == 65
\* thresholds of the entry predicate (backtest_stock_scanner_go.py)
MIN_PRICE == 5
MAX_AVG_TURNOVER_30 == 2
MIN_VOLUME_RATIO == <<1, 2>>
MAX_VOLUME_RATIO == <<6, 5>>
RSI6_MAX == 28
KDJ_K_MAX == 25
MIN_PROFIT_POTENTIAL == 18
STAND_STILL_THRESHOLD == <<201, 200>>
MIN_BIAS_20 == -18
MAX_BIAS_20 == -8
MAX_TODAY_CHANGE == 4
\* "if len(df) < 65: return None" (stock_scanner_go.py)
LIVE_MIN_LEN == 65
\* the volume band of strategy C, "2.0 * MA5V < Volume < 4.5 * MA5V"
VOL_BAND_LOW == <<2, 1>>
VOL_BAND_HIGH == <<9, 2>>
VOL_WINDOW_SHORT == 3
\* windows of calculate_indicators
RSI_WINDOW == 6
KDJ_WINDOW == 9
EWM_COM == 2
MA_SHORT == 5
MA_MID == 20
MA_LONG == 60
TURNOVER_WINDOW == 30
VOL_WINDOW == 5
\* the literal 0.3 of "if drawback >= 0.3"
DRAWBACK == <<3, 10>>
\* the literal 2.0 of "max(..., 2.0)"
PROFIT_FLOOR == <<2, 1>>

-----------------------------------------------------------------------------
(* Exact arithmetic on <<n, d>> pairs, d > 0 *)

Min(a, b) == IF a <= b THEN a ELSE b
Max(a, b) == IF a >= b THEN a ELSE b

NaN == <<0, 0>>
IsNaN(r) == r[1] = 0 /\ r[2] = 0
RLe(a, b) == a[1] * b[2] <= b[1] * a[2]
RLt(a, b) == a[1] * b[2] < b[1] * a[2]
REq(a, b) == a[1] * b[2] = b[1] * a[2]
RMax(a, b) == IF RLe(b, a) THEN a ELSE b

\* (price - base) / base * 100
Pct(price, base) == <<(price - base) * 100, base>>

\* round(x, 2), as an integer number of hundredths; ties go to the even
\* neighbour (Python 3's round)
Round2(r) ==
    LET n100 == r[1] * 100
        f    == n100 \div r[2]
        rem  == n100 % r[2]
    IN  IF 2 * rem < r[2] THEN f
        ELSE IF 2 * rem > r[2] THEN f + 1
        ELSE IF f % 2 = 0 THEN f ELSE f + 1

-----------------------------------------------------------------------------
(* The inputs: price series *)

Bar(h, l, c) == [high |-> h, low |-> l, close |-> c]

FlatBar == Bar(1000, 1000, 1000)

\* bars placed freely in the short (dense) series: the boundary cases of
\* every exit test against an entry close of 1000
Bars ==
    { FlatBar,
      Bar(1000, 950, 960),      \* low exactly -5%
      Bar(1010, 951, 1010),     \* low just above the stop, close +1%
      Bar(1100, 1000, 1090),    \* high exactly +10%, drawback 0.1
      Bar(1100, 1000, 1070),    \* high exactly +10%, drawback exactly 0.3
      Bar(1100, 940, 1000),     \* stop-loss and trailing stop on one day
      Bar(1099, 990, 1020) }    \* high just under the trigger

\* bars placed in the long (sparse) series: the bars of the scenarios
SparseBars ==
    { Bar(1000, 940, 990),      \* day low 9.40 (-6%)
      Bar(1100, 1000, 1080),    \* peak 11.00, close 10.80
      Bar(1065, 1000, 1065),    \* close 10.65
      Bar(1005, 1000, 1005),    \* close 10.05 (+0.5%)
      Bar(1050, 1000, 1050) }   \* close 10.50

SeqsUpTo(S, n) == UNION { [1..k -> S] : k \in 1..n }

DenseSeries == SeqsUpTo(Bars, MaxDense)

SparseLen == HOLD_DAYS + 1 + SparseExtra

\* flat series of SparseLen bars with two bars replaced
SparseSeries ==
    { [k \in 1..SparseLen |-> IF k = p THEN a ELSE IF k = q THEN b ELSE FlatBar] :
        <<p, q, a, b>> \in { t \in (2..SparseLen) \X (2..SparseLen) \X SparseBars \X SparseBars :
                             t[1] < t[2] } }

Series == DenseSeries \cup SparseSeries

Horizons == (1..MaxHorizon) \cup HOLD_PERIODS

-----------------------------------------------------------------------------
(* simulate_trade(df, start_idx, max_days), one loop iteration per step *)

row(i) == df[i + 1]

buy_price == row(start_idx).close

curr_row == row(start_idx + day)

\* mutant: the loop runs one day too far, range(1, max_days + 2)
InLoop_one_more == day <= max_days + 1 /\ start_idx + day < Len(df)

\* "for day in range(1, max_days + 1): if start_idx + day >= len(df): break"
InLoop == day <= max_days /\ start_idx + day < Len(df)

\* "max_price = max(max_price, curr_row[high])"
peak == Max(max_price, curr_row.high)

\* "(curr_row[low] - buy_price) / buy_price * 100 <= STOP_LOSS"
StopLossHit == (curr_row.low - buy_price) * 100 <= STOP_LOSS * buy_price

\* mutant: the stop-loss exit reports the day's low instead of the threshold
StopLossReturn_low == Pct(curr_row.low, buy_price)

\* "return STOP_LOSS"
StopLossReturn == <<STOP_LOSS, 1>>

\* mutant: the trailing stop is armed by any profit at all
TrailingTriggered_any_profit == (peak - buy_price) * 100 > 0

\* "profit = (max_price - buy_price) / buy_price * 100; if profit >= TRAILING_START"
TrailingTriggered == (peak - buy_price) * 100 >= TRAILING_START * buy_price

\* "drawback = (max_price - close) / (max_price - buy_price); if drawback >= 0.3"
\* (evaluated only when TrailingTriggered, so max_price > buy_price)
DrawbackHit ==
    (peak - curr_row.close) * DRAWBACK[2] >= DRAWBACK[1] * (peak - buy_price)

\* mutant: the trailing-stop exit reports the close without the floor
TrailingReturn_no_floor == Pct(curr_row.close, buy_price)

\* "return max((close - buy_price) / buy_price * 100, 2.0)"
TrailingReturn == RMax(Pct(curr_row.close, buy_price), PROFIT_FLOOR)

\* mutant: the trailing stop is tested before the stop-loss
ExitToday_trailing_first ==
    IF TrailingTriggered /\ DrawbackHit THEN "trail"
    ELSE IF StopLossHit THEN "stop"
    ELSE "none"

\* the order of the two tests in the loop body
ExitToday ==
    IF StopLossHit THEN "stop"
    ELSE IF TrailingTriggered /\ DrawbackHit THEN "trail"
    ELSE "none"

\* mutant: expiry always sells at the last bar of the series
end_idx_last_bar == Len(df) - 1

\* "end_idx = min(start_idx + max_days, len(df) - 1)"
end_idx == Min(start_idx + max_days, Len(df) - 1)

\* mutant: expiry reads the wrong column, the day's high
ExpiryReturn_high == Pct(row(end_idx).high, buy_price)

\* "return (df.iloc[end_idx][close] - buy_price) / buy_price * 100"
ExpiryReturn == Pct(row(end_idx).close, buy_price)

nonSim == <<drvVars, indVars, auxVars>>
inlineVars == <<final_ret, max_reach, is_stopped, report>>

SimStopLoss ==
    /\ pc = "loop" /\ variant = "go" /\ InLoop
    /\ ExitToday = "stop"
    /\ max_price' = peak
    /\ ret' = StopLossReturn
    /\ reason' = "stop"
    /\ exit_idx' = start_idx + day
    /\ pc' = "done"
    /\ UNCHANGED <<df, start_idx, max_days, variant, day, inlineVars, nonSim>>

SimTrailing ==
    /\ pc = "loop" /\ variant = "go" /\ InLoop
    /\ ExitToday = "trail"
    /\ max_price' = peak
    /\ ret' = TrailingReturn
    /\ reason' = "trail"
    /\ exit_idx' = start_idx + day
    /\ pc' = "done"
    /\ UNCHANGED <<df, start_idx, max_days, variant, day, inlineVars, nonSim>>

SimHold ==
    /\ pc = "loop" /\ variant = "go" /\ InLoop
    /\ ExitToday = "none"
    /\ max_price' = peak
    /\ day' = day + 1
    /\ UNCHANGED <<df, start_idx, max_days, variant, pc, ret, reason, exit_idx,
                   inlineVars, nonSim>>

SimExpire ==
    /\ pc = "loop" /\ variant = "go" /\ ~InLoop
    /\ ret' = ExpiryReturn
    /\ reason' = "expired"
    /\ exit_idx' = end_idx
    /\ pc' = "done"
    /\ UNCHANGED <<df, start_idx, max_days, variant, day, max_price, inlineVars, nonSim>>

-----------------------------------------------------------------------------
(* run_backtest_on_file: the holding loop entered for a signal at index i  *)
(* (start_idx here); post_df = df.iloc[i+1 : i+1+HOLD_DAYS].  The scan     *)
(* loop is "for i in range(start_idx, len(df) - 1)", so i <= len(df) - 2   *)
(* and post_df is never empty.                                             *)

triggered_price == row(start_idx).close

\* mutant: the slice loses its upper end, post_df = df.iloc[i+1:]
InPost_whole_series == start_idx + day < Len(df)

\* the rows of post_df: day-th row is df.iloc[i + day]
InPost == day <= HOLD_DAYS /\ start_idx + day < Len(df)

day_high_reach == Pct(curr_row.high, triggered_price)

\* "day_low_ret <= STOP_LOSS_PCT"
InlineStopHit == (curr_row.low - triggered_price) * 100 <= STOP_LOSS_PCT * triggered_price

\* the dict appended to results; "stopped" is the status string for
\* is_stopped, "expired" the other one
ResultRow(fr, mr, st) ==
    [ret |-> Round2(fr), reach |-> Round2(mr),
     status |-> IF st THEN "stopped" ELSE "expired"]

NoRow == [ret |-> 0, reach |-> 0, status |-> "none"]

InlineStop ==
    /\ pc = "loop" /\ variant = "c" /\ InPost
    /\ InlineStopHit
    /\ max_reach' = RMax(max_reach, day_high_reach)
    /\ final_ret' = <<STOP_LOSS_PCT, 1>>
    /\ is_stopped' = TRUE
    /\ exit_idx' = start_idx + day
    /\ report' = ResultRow(final_ret', max_reach', TRUE)
    /\ pc' = "done"
    /\ UNCHANGED <<df, start_idx, max_days, variant, day, max_price, ret, reason, nonSim>>

InlineHold ==
    /\ pc = "loop" /\ variant = "c" /\ InPost
    /\ ~InlineStopHit
    /\ max_reach' = RMax(max_reach, day_high_reach)
    /\ final_ret' = Pct(curr_row.close, triggered_price)
    /\ exit_idx' = start_idx + day
    /\ day' = day + 1
    /\ UNCHANGED <<df, start_idx, max_days, variant, pc, max_price, ret, reason,
                   is_stopped, report, nonSim>>

InlineReport ==
    /\ pc = "loop" /\ variant = "c" /\ ~InPost
    /\ report' = ResultRow(final_ret, max_reach, is_stopped)
    /\ pc' = "done"
    /\ UNCHANGED <<df, start_idx, max_days, variant, day, max_price, ret, reason,
                   exit_idx, final_ret, max_reach, is_stopped, nonSim>>

-----------------------------------------------------------------------------
(* Specification of the two simulators *)

DrvIdle ==
    /\ files = <<>> /\ task_pc = <<>> /\ scan_i = <<>> /\ results = <<>>
    /\ raw = <<>> /\ finish_order = <<>> /\ main_pc = "idle" /\ all_trades = <<>>
    /\ summary = <<>>

IndIdle ==
    /\ px = <<>> /\ idx = 0 /\ ind_pc = "idle" /\ ind_full = <<>>
    /\ ind_trunc = <<>> /\ hit_full = FALSE /\ hit_trunc = FALSE
    /\ ind_c = <<>> /\ live = <<>>

TrdIdle == trade = <<>>

DlIdle ==
    /\ fs = <<>> /\ today = 0 /\ dl_ret = <<>> /\ dl_did = <<>> /\ dl_prior = <<>>

AuxIdle == TrdIdle /\ DlIdle

SimIdle ==
    /\ df = <<>> /\ start_idx = 0 /\ max_days = 0 /\ variant = "idle"
    /\ pc = "idle" /\ day = 0 /\ max_price = 0 /\ ret = NaN /\ reason = "open"
    /\ exit_idx = -1 /\ final_ret = <<0, 1>> /\ max_reach = <<0, 1>>
    /\ is_stopped = FALSE /\ report = NoRow

SimInit ==
    /\ df \in Series
    /\ variant \in {"go", "c"}
    /\ start_idx \in 0..(Len(df) - 1)
    /\ variant = "c" => start_idx <= Len(df) - 2
    /\ max_days \in Horizons
    /\ variant = "c" => max_days = HOLD_DAYS
    /\ pc = "loop"
    /\ day = 1
    /\ max_price = df[start_idx + 1].close
    /\ ret = NaN
    /\ reason = "open"
    /\ exit_idx = -1
    /\ final_ret = <<0, 1>>
    /\ max_reach = <<0, 1>>
    /\ is_stopped = FALSE
    /\ report = NoRow

Init == SimInit /\ DrvIdle /\ IndIdle /\ AuxIdle

Next ==
    \/ SimStopLoss
    \/ SimTrailing
    \/ SimHold
    \/ SimExpire
    \/ InlineStop
    \/ InlineHold
    \/ InlineReport

Spec == Init /\ [][Next]_vars

\* a call that has started runs on: nothing in the loops waits or yields
FairSpec == Spec /\ WF_vars(Next)

-----------------------------------------------------------------------------
(* process_file, for one signal at index i = start_idx:                    *)
(*   "for p in HOLD_PERIODS: trade[p] = simulate_trade(df, i, p)".         *)
(* The calls run one after the other on the same df and i; the horizons    *)
(* are those of Horizons, in increasing order.                             *)

FirstHorizon == CHOOSE h \in Horizons : \A g \in Horizons : h <= g

LaterHorizons(h) == { g \in Horizons : g > h }

NextHorizon(h) == CHOOSE g \in LaterHorizons(h) : \A k \in LaterHorizons(h) : g <= k

Outcome == [ret |-> ret, reason |-> reason, exit_idx |-> exit_idx]

\* the call has returned: store its value under the period and start the call
\* for the next period, if there is one
TradeRecord ==
    /\ pc = "done" /\ variant = "go"
    /\ trade' = [h \in DOMAIN trade \cup {max_days} |->
                    IF h = max_days THEN Outcome ELSE trade[h]]
    /\ IF LaterHorizons(max_days) # {}
       THEN /\ max_days' = NextHorizon(max_days)
            /\ pc' = "loop"
            /\ day' = 1
            /\ max_price' = buy_price
            /\ ret' = NaN
            /\ reason' = "open"
            /\ exit_idx' = -1
       ELSE /\ pc' = "recorded"
            /\ UNCHANGED <<max_days, day, max_price, ret, reason, exit_idx>>
    /\ UNCHANGED <<df, start_idx, variant, inlineVars, drvVars, indVars, dlVars>>

TradeInit ==
    /\ SimInit
    /\ variant = "go"
    /\ max_days = FirstHorizon
    /\ trade = [h \in {} |-> Outcome]

InitTrade == TradeInit /\ DrvIdle /\ IndIdle /\ DlIdle

NextTrade ==
    \/ SimStopLoss
    \/ SimTrailing
    \/ SimHold
    \/ SimExpire
    \/ TradeRecord

SpecTrade == InitTrade /\ [][NextTrade]_vars

-----------------------------------------------------------------------------
(* The backtest drivers: main and process_file of                          *)
(* backtest_stock_scanner_go.py (variant "go"), main and                   *)
(* run_backtest_on_file of strategy_c_backtest.py (variant "c").           *)
(*                                                                         *)
(* A csv file is described by what decides the control flow of its task:   *)
(*   len   the number of rows;                                             *)
(*   board whether the file name starts with 60 or 00;                     *)
(*   bad   where processing raises: nowhere, in pd.read_csv, in            *)
(*         calculate_indicators (e.g. a missing column) or at the scan     *)
(*         index whose evaluation or simulation raises;                    *)
(*   sig   the scan indices at which the entry predicate holds, each with  *)
(*         the returns its simulation gives, in hundredths of a percent.   *)

Periods == IF variant = "c" THEN {HOLD_DAYS} ELSE HOLD_PERIODS

\* returns of one simulated signal per holding period (10 is the period of
\* both scripts)
ProfileA == [p \in HOLD_PERIODS |-> IF p = 3 THEN 120 ELSE 650]
ProfileB == [p \in HOLD_PERIODS |-> IF p = 10 THEN 0 ELSE -500]
ProfileC == [p \in HOLD_PERIODS |-> IF p = 20 THEN 200 ELSE -500]

ScanFirst(n) ==
    IF variant = "c" THEN Max(n - LOOKBACK_WINDOW, C_SCAN_FIRST) ELSE SCAN_FIRST

\* mutant: the scan keeps fewer bars in reserve than the longest period
ScanStop_short_tail(n) == IF variant = "c" THEN n - 1 ELSE n - HOLD_DAYS

\* first index the scan loop does not visit (the stop of range(...))
ScanStop(n) == IF variant = "c" THEN n - 1 ELSE n - SCAN_TAIL

NoFault == [at |-> "none", i |-> 0]
ReadFault == [at |-> "read", i |-> 0]
CalcFault == [at |-> "calc", i |-> 0]
ScanFault(j) == [at |-> "scan", i |-> j]

-----------------------------------------------------------------------------
(* simulate_trade as process_file calls it: the file has passed the length *)
(* test, i is an index of the scan loop and p one of HOLD_PERIODS.  The    *)
(* file is flat except for one bar within the 20 days after i.             *)

LongLens == {MIN_LEN, MIN_LEN + 1}

BacktestInit ==
    /\ variant = "go"
    /\ \E n \in LongLens :
         /\ ~(n < MIN_LEN)
         /\ start_idx \in {ScanFirst(n), ScanStop(n) - 1}
         /\ \E q \in 1..SCAN_TAIL, b \in Bars :
               df = [k \in 1..n |-> IF k = start_idx + 1 + q THEN b ELSE FlatBar]
    /\ max_days \in HOLD_PERIODS
    /\ pc = "loop"
    /\ day = 1
    /\ max_price = df[start_idx + 1].close
    /\ ret = NaN
    /\ reason = "open"
    /\ exit_idx = -1
    /\ final_ret = <<0, 1>>
    /\ max_reach = <<0, 1>>
    /\ is_stopped = FALSE
    /\ report = NoRow

InitBacktest == BacktestInit /\ DrvIdle /\ IndIdle /\ AuxIdle

NextBacktest ==
    \/ SimStopLoss
    \/ SimTrailing
    \/ SimHold
    \/ SimExpire

SpecBacktest == InitBacktest /\ [][NextBacktest]_vars

-----------------------------------------------------------------------------
(* The files of the driver *)

File(n, brd, b, sg) == [len |-> n, board |-> brd, bad |-> b, sig |-> sg]

Sig(i, r) == [i |-> i, r |-> r]

FileKinds ==
    LET a == ScanFirst(MIN_LEN)
        z == ScanStop(MIN_LEN) - 1
        m == a + 5
    IN  { File(MIN_LEN, TRUE, NoFault, {Sig(a, ProfileA), Sig(z, ProfileB)}),
          File(MIN_LEN + 1, TRUE, NoFault, {Sig(ScanStop(MIN_LEN + 1) - 1, ProfileC)}),
          File(MIN_LEN, TRUE, ScanFault(m), {Sig(a, ProfileA), Sig(z, ProfileB)}),
          File(MIN_LEN, TRUE, ScanFault(z), {Sig(a, ProfileC), Sig(z, ProfileA)}),
          File(MIN_LEN, TRUE, ReadFault, {Sig(a, ProfileA)}),
          File(MIN_LEN, TRUE, CalcFault, {Sig(z, ProfileA)}),
          File(MIN_LEN - 1, TRUE, NoFault, {Sig(ScanFirst(MIN_LEN - 1), ProfileA)}),
          File(MIN_LEN, FALSE, NoFault, {Sig(a, ProfileA)}) }

Files == 1..NumFiles

Running == {"start", "calc", "scan"}

\* a slot of the list Pool.map returns: not delivered yet, None, or a list
Pending == [kind |-> "pending", v |-> <<>>]
None == [kind |-> "none", v |-> <<>>]
List(ts) == [kind |-> "list", v |-> ts]

\* mutant: "results" is a list shared by the tasks and never reset
FreshResults_shared(f) ==
    IF \E g \in Files : g # f /\ results[g] # <<>>
    THEN results[CHOOSE g \in Files : g # f /\ results[g] # <<>>]
    ELSE <<>>

\* "results = []"
FreshResults(f) == <<>>

\* mutant: the except branch hands back what was collected so far
OnError_partial(f) == List(results[f])

\* the value of the except branch: "return []" / "return None"
OnError(f) == IF variant = "c" THEN None ELSE List(<<>>)

\* the value returned for a file that is too short
OnShort(f) == IF variant = "c" THEN None ELSE List(<<>>)

\* the dict appended for a signal at index i: code, date, one return per period
Trade(f, sg) == [code |-> f, date |-> sg.i, r |-> [p \in Periods |-> sg.r[p]]]

\* Pool.map stores each task's return value at the task's own position
Deliver(f, value) == [raw EXCEPT ![f] = value]

\* the indices >= i at which the loop body appends a trade or raises
Events(f, i) ==
    { j \in i..(ScanStop(files[f].len) - 1) :
        files[f].bad = ScanFault(j) \/ \E sg \in files[f].sig : sg.i = j }

\* the Pool hands a queued task to a free worker
TaskStart(f) ==
    /\ main_pc = "map"
    /\ task_pc[f] = "queued"
    /\ Cardinality({g \in Files : task_pc[g] \in Running}) < NumWorkers
    /\ task_pc' = [task_pc EXCEPT ![f] = "start"]
    /\ UNCHANGED <<files, scan_i, results, raw, finish_order, main_pc, all_trades,
                   summary, simVars, indVars, auxVars>>

\* the task of file f returns value: Pool.map keeps it at f's position
Finish(f, value) ==
    /\ raw' = Deliver(f, value)
    /\ task_pc' = [task_pc EXCEPT ![f] = "done"]
    /\ finish_order' = Append(finish_order, f)

\* the name test of strategy C (before the try), pd.read_csv and the length test
TaskRead(f) ==
    /\ task_pc[f] = "start"
    /\ \/ /\ variant = "c" /\ ~files[f].board
          /\ Finish(f, None)
       \/ /\ variant = "c" => files[f].board
          /\ files[f].bad = ReadFault
          /\ Finish(f, OnError(f))
       \/ /\ variant = "c" => files[f].board
          /\ files[f].bad # ReadFault
          /\ files[f].len < MIN_LEN
          /\ Finish(f, OnShort(f))
       \/ /\ variant = "c" => files[f].board
          /\ files[f].bad # ReadFault
          /\ files[f].len >= MIN_LEN
          /\ task_pc' = [task_pc EXCEPT ![f] = "calc"]
          /\ UNCHANGED <<raw, finish_order>>
    /\ UNCHANGED <<files, scan_i, results, main_pc, all_trades, summary,
                   simVars, indVars, auxVars>>

\* calculate_indicators, "results = []" and the start of the scan loop
TaskCalc(f) ==
    /\ task_pc[f] = "calc"
    /\ \/ /\ files[f].bad = CalcFault
          /\ Finish(f, OnError(f))
          /\ UNCHANGED <<scan_i, results>>
       \/ /\ files[f].bad # CalcFault
          /\ results' = [results EXCEPT ![f] = FreshResults(f)]
          /\ scan_i' = [scan_i EXCEPT ![f] = ScanFirst(files[f].len)]
          /\ task_pc' = [task_pc EXCEPT ![f] = "scan"]
          /\ UNCHANGED <<raw, finish_order>>
    /\ UNCHANGED <<files, main_pc, all_trades, summary, simVars, indVars, auxVars>>

\* the scan loop, run up to and including the next iteration that appends a
\* trade or raises (the iterations in between change nothing but i), or to
\* the end of the range and the "return results"
TaskScan(f) ==
    /\ task_pc[f] = "scan"
    /\ LET ev == Events(f, scan_i[f])
       IN  \/ /\ ev = {}
              /\ Finish(f, List(results[f]))
              /\ scan_i' = [scan_i EXCEPT ![f] = ScanStop(files[f].len)]
              /\ results' = results
           \/ /\ ev # {}
              /\ LET j == CHOOSE x \in ev : \A y \in ev : x <= y
                 IN  \/ /\ files[f].bad = ScanFault(j)
                        /\ Finish(f, OnError(f))
                        /\ scan_i' = [scan_i EXCEPT ![f] = j]
                        /\ results' = results
                     \/ /\ files[f].bad # ScanFault(j)
                        /\ LET sg == CHOOSE x \in files[f].sig : x.i = j
                           IN  results' = [results EXCEPT ![f] = Append(@, Trade(f, sg))]
                        /\ scan_i' = [scan_i EXCEPT ![f] = j + 1]
                        /\ UNCHANGED <<raw, task_pc, finish_order>>
    /\ UNCHANGED <<files, main_pc, all_trades, summary, simVars, indVars, auxVars>>

\* go: "[t for sub in raw for t in sub]"
\* c:  "[item for sublist in all_results if sublist for item in sublist]"
RECURSIVE Flatten(_, _)
Flatten(rw, k) ==
    IF k > Len(rw) THEN <<>>
    ELSE rw[k].v \o Flatten(rw, k + 1)

RECURSIVE SumRet(_, _, _)
SumRet(ts, p, k) == IF k > Len(ts) THEN 0 ELSE ts[k].r[p] + SumRet(ts, p, k + 1)

\* one line of the printed board: win rate and mean return as printed with
\* two decimals (hundredths), and the number of signals
Stats(ts, p) ==
    LET n    == Len(ts)
        wins == Cardinality({k \in 1..n : ts[k].r[p] > 0})
    IN  [win_rate |-> Round2(<<wins * 100, n>>),
         mean     |-> Round2(<<SumRet(ts, p, 1), n * 100>>),
         count    |-> n]

\* pool.map has returned: the flattening and the test for an empty result
MainCollect ==
    /\ main_pc = "map"
    /\ \A f \in Files : task_pc[f] = "done"
    /\ all_trades' = Flatten(raw, 1)
    /\ main_pc' = IF all_trades' = <<>> THEN "no_signals" ELSE "collected"
    /\ UNCHANGED <<files, task_pc, scan_i, results, raw, finish_order, summary,
                   simVars, indVars, auxVars>>

\* the statistics per holding period
MainSummary ==
    /\ main_pc = "collected"
    /\ summary' = [p \in Periods |-> Stats(all_trades, p)]
    /\ main_pc' = "done"
    /\ UNCHANGED <<files, task_pc, scan_i, results, raw, finish_order, all_trades,
                   simVars, indVars, auxVars>>

DrvInit ==
    /\ variant \in {"go", "c"}
    /\ files \in [Files -> FileKinds]
    /\ task_pc = [f \in Files |-> "queued"]
    /\ scan_i = [f \in Files |-> 0]
    /\ results = [f \in Files |-> <<>>]
    /\ raw = [f \in Files |-> Pending]
    /\ finish_order = <<>>
    /\ main_pc = "map"
    /\ all_trades = <<>>
    /\ summary = <<>>
    /\ df = <<>> /\ start_idx = 0 /\ max_days = 0
    /\ pc = "idle" /\ day = 0 /\ max_price = 0 /\ ret = NaN /\ reason = "open"
    /\ exit_idx = -1 /\ final_ret = <<0, 1>> /\ max_reach = <<0, 1>>
    /\ is_stopped = FALSE /\ report = NoRow

InitDriver == DrvInit /\ IndIdle /\ AuxIdle

NextDriver ==
    \/ \E f \in Files : TaskStart(f)
    \/ \E f \in Files : TaskRead(f)
    \/ \E f \in Files : TaskCalc(f)
    \/ \E f \in Files : TaskScan(f)
    \/ MainCollect
    \/ MainSummary

SpecDriver == InitDriver /\ [][NextDriver]_vars

\* the pool runs every started task, and main goes on when map returns
FairDriver == SpecDriver /\ WF_vars(NextDriver)

-----------------------------------------------------------------------------
(* Floating-point values as exact rationals: a finite value is <<n, d>>    *)
(* with d > 0 in lowest terms, NaN is <<0, 0>>, +inf is <<1, 0>> and -inf  *)
(* is <<-1, 0>>.  Operations follow IEEE 754 / numpy for the special       *)
(* values: NaN propagates, x/0 is an infinity of x's sign, 0/0 is NaN, and *)
(* every comparison with NaN is false.                                     *)

PosInf == <<1, 0>>
NegInf == <<-1, 0>>
IsInf(r) == r[2] = 0 /\ r[1] # 0
IsFin(r) == r[2] > 0

Abs(n) == IF n < 0 THEN -n ELSE n
Sgn(n) == IF n > 0 THEN 1 ELSE IF n < 0 THEN -1 ELSE 0

RECURSIVE Gcd(_, _)
Gcd(a, b) == IF b = 0 THEN a ELSE Gcd(b, a % b)

Norm(r) ==
    LET g == Gcd(Abs(r[1]), Abs(r[2]))
    IN  IF r[2] > 0 THEN <<r[1] \div g, r[2] \div g>>
        ELSE <<(-r[1]) \div g, (-r[2]) \div g>>

I(n) == <<n, 1>>

RNeg(a) == <<-a[1], a[2]>>

RAdd(a, b) ==
    IF IsNaN(a) \/ IsNaN(b) THEN NaN
    ELSE IF IsInf(a) THEN (IF IsInf(b) /\ b # a THEN NaN ELSE a)
    ELSE IF IsInf(b) THEN b
    ELSE Norm(<<a[1] * b[2] + b[1] * a[2], a[2] * b[2]>>)

RSub(a, b) == RAdd(a, RNeg(b))

RMul(a, b) ==
    IF IsNaN(a) \/ IsNaN(b) THEN NaN
    ELSE IF IsInf(a) \/ IsInf(b)
         THEN (IF a[1] = 0 \/ b[1] = 0 THEN NaN ELSE <<Sgn(a[1]) * Sgn(b[1]), 0>>)
    ELSE Norm(<<a[1] * b[1], a[2] * b[2]>>)

RDiv(a, b) ==
    IF IsNaN(a) \/ IsNaN(b) THEN NaN
    ELSE IF IsInf(b) THEN (IF IsInf(a) THEN NaN ELSE I(0))
    ELSE IF b[1] = 0 THEN (IF a[1] = 0 THEN NaN ELSE <<Sgn(a[1]), 0>>)
    ELSE IF IsInf(a) THEN <<Sgn(a[1]) * Sgn(b[1]), 0>>
    ELSE Norm(<<a[1] * b[2], a[2] * b[1]>>)

\* a <= b as floats
FLe(a, b) ==
    IF IsNaN(a) \/ IsNaN(b) THEN FALSE
    ELSE IF a = NegInf \/ b = PosInf THEN TRUE
    ELSE IF a = PosInf \/ b = NegInf THEN FALSE
    ELSE a[1] * b[2] <= b[1] * a[2]

FGe(a, b) == FLe(b, a)

-----------------------------------------------------------------------------
(* calculate_indicators (backtest_stock_scanner_go.py).  A series s is a   *)
(* sequence of rows [close, high, low, vol, turnover]; index i is 0-based  *)
(* as in df.iloc[i], so row i is s[i + 1].  A column is a sequence of      *)
(* values aligned with s.                                                  *)

Row(c, h, l, v, t) == [close |-> c, high |-> h, low |-> l, vol |-> v, turnover |-> t]

RECURSIVE SumRange(_, _, _)
SumRange(col, a, b) ==
    IF a > b THEN 0
    ELSE IF a = b THEN col[a]
    ELSE LET mid == (a + b) \div 2
         IN  SumRange(col, a, mid) + SumRange(col, mid + 1, b)

\* Series.rolling(w).mean() of an integer column without NaN, at index i
RollingMean(col, w, i) ==
    IF i + 1 < w THEN NaN ELSE Norm(<<SumRange(col, i - w + 2, i + 1), w>>)

\* Series.rolling(w).min() / .max() at index i
RollingMin(col, w, i) ==
    IF i + 1 < w THEN NaN
    ELSE I(CHOOSE x \in {col[k] : k \in (i - w + 2)..(i + 1)} :
               \A k \in (i - w + 2)..(i + 1) : x <= col[k])

RollingMax(col, w, i) ==
    IF i + 1 < w THEN NaN
    ELSE I(CHOOSE x \in {col[k] : k \in (i - w + 2)..(i + 1)} :
               \A k \in (i - w + 2)..(i + 1) : x >= col[k])

closes(s) == [k \in 1..Len(s) |-> s[k].close]
vols(s) == [k \in 1..Len(s) |-> s[k].vol]

\* "delta = close.diff()"; "delta.where(delta > 0, 0)": the NaN of index 0
\* fails the test and becomes 0
gain_terms(s) ==
    [k \in 1..Len(s) |-> IF k = 1 THEN 0 ELSE Max(s[k].close - s[k - 1].close, 0)]

\* "-delta.where(delta < 0, 0)"
loss_terms(s) ==
    [k \in 1..Len(s) |-> IF k = 1 THEN 0 ELSE Max(s[k - 1].close - s[k].close, 0)]

\* "loss.replace(0, np.nan)"
ReplaceZero(r) == IF r = I(0) THEN NaN ELSE r

\* mutant: the "1 +" of the denominator is lost
rsi6_no_one(s, i) ==
    LET gain == RollingMean(gain_terms(s), RSI_WINDOW, i)
        loss == RollingMean(loss_terms(s), RSI_WINDOW, i)
    IN  RSub(I(100), RDiv(I(100), RDiv(gain, ReplaceZero(loss))))

\* "df[rsi6] = 100 - (100 / (1 + (gain / loss.replace(0, np.nan))))"
rsi6(s, i) ==
    LET gain == RollingMean(gain_terms(s), RSI_WINDOW, i)
        loss == RollingMean(loss_terms(s), RSI_WINDOW, i)
    IN  RSub(I(100), RDiv(I(100), RAdd(I(1), RDiv(gain, ReplaceZero(loss)))))

\* "rsv = (close - low_list) / (high_list - low_list) * 100"
rsv(s, i) ==
    LET low_list  == RollingMin([k \in 1..Len(s) |-> s[k].low], KDJ_WINDOW, i)
        high_list == RollingMax([k \in 1..Len(s) |-> s[k].high], KDJ_WINDOW, i)
    IN  RMul(RDiv(RSub(I(s[i + 1].close), low_list), RSub(high_list, low_list)), I(100))

\* Series.ewm(com=c).mean() with pandas' defaults adjust=True,
\* ignore_na=False, min_periods=0: the running weighted average w and the
\* weight old of what it has seen, after the values x[1..k]; a NaN input
\* ages the weight and leaves the average, which is carried forward
EwmStep(st, cur, c) ==
    LET aged == RMul(st.old, <<c, c + 1>>)
    IN  IF ~IsNaN(st.w)
        THEN IF ~IsNaN(cur)
             THEN [w   |-> IF st.w # cur
                           THEN RDiv(RAdd(RMul(aged, st.w), cur), RAdd(aged, I(1)))
                           ELSE st.w,
                   old |-> RAdd(aged, I(1))]
             ELSE [w |-> st.w, old |-> aged]
        ELSE IF ~IsNaN(cur) THEN [w |-> cur, old |-> st.old]
        ELSE st

\* the steps for x[a..b] applied to st; the range is split in halves and
\* the left half is evaluated before the right one starts, which keeps the
\* evaluation shallow
RECURSIVE EwmFold(_, _, _, _, _)
EwmFold(st, x, c, a, b) ==
    IF a > b THEN st
    ELSE IF a = b THEN EwmStep(st, x[a], c)
    ELSE LET mid  == (a + b) \div 2
             left == EwmFold(st, x, c, a, mid)
         IN  IF left.w = left.w /\ left.old = left.old
             THEN EwmFold(left, x, c, mid + 1, b)
             ELSE st

EwmRun(x, c, k) == EwmFold([w |-> x[1], old |-> I(1)], x, c, 2, k)

\* "df[kdj_k] = rsv.ewm(com=2).mean()"
kdj_k(s, i) == EwmRun([k \in 1..Len(s) |-> rsv(s, k - 1)], EWM_COM, i + 1).w

ma5(s, i) == RollingMean(closes(s), MA_SHORT, i)
ma20(s, i) == RollingMean(closes(s), MA_MID, i)
ma60(s, i) == RollingMean(closes(s), MA_LONG, i)

\* "df[bias20] = (close - df[ma20]) / df[ma20] * 100"
bias20(s, i) == RMul(RDiv(RSub(I(s[i + 1].close), ma20(s, i)), ma20(s, i)), I(100))

avg_turnover_30(s, i) ==
    RollingMean([k \in 1..Len(s) |-> s[k].turnover], TURNOVER_WINDOW, i)

\* mutant: the baseline is taken from a window shifted the wrong way,
\* vol.shift(-1).rolling(5).mean()
vol_ma5_shift_back(s, i) ==
    IF i + 2 > Len(s) \/ i + 1 < VOL_WINDOW THEN NaN
    ELSE Norm(<<SumRange(vols(s), i - VOL_WINDOW + 3, i + 2), VOL_WINDOW>>)

\* "df[vol_ma5] = vol.shift(1).rolling(5).mean()": the mean of the volumes of
\* the five days before i, NaN while the shifted window holds the NaN of
\* index 0
vol_ma5(s, i) ==
    IF i < VOL_WINDOW THEN NaN
    ELSE Norm(<<SumRange(vols(s), i - VOL_WINDOW + 1, i), VOL_WINDOW>>)

\* "df[vol_ratio] = vol / df[vol_ma5]"
vol_ratio(s, i) == RDiv(I(s[i + 1].vol), vol_ma5(s, i))

\* "df[vol_increase] = vol > vol.shift(1)"
vol_increase(s, i) == i >= 1 /\ s[i + 1].vol > s[i].vol

\* row i of calculate_indicators(s)
Snapshot(s, i) ==
    [rsi6 |-> rsi6(s, i), kdj_k |-> kdj_k(s, i),
     ma5 |-> ma5(s, i), ma20 |-> ma20(s, i), ma60 |-> ma60(s, i),
     bias20 |-> bias20(s, i), avg_turnover_30 |-> avg_turnover_30(s, i),
     vol_ma5 |-> vol_ma5(s, i), vol_ratio |-> vol_ratio(s, i),
     vol_increase |-> vol_increase(s, i)]

\* the condition of process_file at index i >= 1 (the scan starts at 60),
\* on row_ = row i of the indicator table
EntrySignal(s, i, row_) ==
    LET c    == I(s[i + 1].close)
        prev == I(s[i].close)
        potential == RMul(RDiv(RSub(row_.ma60, c), c), I(100))
        change    == RMul(RDiv(RSub(c, prev), prev), I(100))
    IN  /\ FGe(c, I(MIN_PRICE))
        /\ FLe(row_.avg_turnover_30, I(MAX_AVG_TURNOVER_30))
        /\ FLe(row_.rsi6, I(RSI6_MAX))
        /\ FLe(row_.kdj_k, I(KDJ_K_MAX))
        /\ FLe(I(MIN_BIAS_20), row_.bias20) /\ FLe(row_.bias20, I(MAX_BIAS_20))
        /\ FGe(c, RMul(row_.ma5, STAND_STILL_THRESHOLD))
        /\ row_.vol_increase
        /\ FLe(MIN_VOLUME_RATIO, row_.vol_ratio) /\ FLe(row_.vol_ratio, MAX_VOLUME_RATIO)
        /\ FGe(potential, I(MIN_PROFIT_POTENTIAL))
        /\ FLe(change, I(MAX_TODAY_CHANGE))

-----------------------------------------------------------------------------
(* The other variants of the indicators: calculate_indicators of           *)
(* strategy_c_backtest.py (strategy_c_sniper.py has the same lines) and    *)
(* process_single_stock of stock_scanner_go.py.                            *)

\* a < b as floats
FLt(a, b) == FLe(a, b) /\ a # b

\* "df[RSI6] = 100 - (100 / (1 + gain/loss))": loss is not replaced, so a
\* zero loss gives gain/0 = inf (0/0 = NaN when the gain is zero too)
RSI6(s, i) ==
    LET gain == RollingMean(gain_terms(s), RSI_WINDOW, i)
        loss == RollingMean(loss_terms(s), RSI_WINDOW, i)
    IN  RSub(I(100), RDiv(I(100), RAdd(I(1), RDiv(gain, loss))))

\* "df[K] = rsv.ewm(com=2).mean()"
K(s, i) == EwmRun([k \in 1..Len(s) |-> rsv(s, k - 1)], EWM_COM, i + 1).w

\* "df[MA5V] = df[Volume].rolling(5).mean()"
MA5V(s, i) == RollingMean(vols(s), VOL_WINDOW, i)

\* "df[MA3V] = df[Volume].rolling(3).mean()"
MA3V(s, i) == RollingMean(vols(s), VOL_WINDOW_SHORT, i)

\* "is_vol = (2.0 * MA5V < Volume < 4.5 * MA5V) and (MA3V >= MA5V)"
is_vol(s, i) ==
    /\ FLt(RMul(VOL_BAND_LOW, MA5V(s, i)), I(s[i + 1].vol))
    /\ FLt(I(s[i + 1].vol), RMul(VOL_BAND_HIGH, MA5V(s, i)))
    /\ FGe(MA3V(s, i), MA5V(s, i))

\* row i of strategy C's indicator table, and the volume filter at i
SnapshotC(s, i) ==
    [RSI6 |-> RSI6(s, i), K |-> K(s, i), MA5V |-> MA5V(s, i), MA3V |-> MA3V(s, i),
     is_vol |-> is_vol(s, i)]

\* what process_single_stock returns for a file it does not select
NotSelected == [selected |-> FALSE, short |-> FALSE, rsi6 |-> NaN, kdj_k |-> NaN,
                vol_ma5 |-> NaN]

\* "rsi6 = 100 - (100 / (1 + (last_gain / last_loss))) if last_loss != 0 else 100"
last_rsi6(s) ==
    LET last_gain == RollingMean(gain_terms(s), RSI_WINDOW, Len(s) - 1)
        last_loss == RollingMean(loss_terms(s), RSI_WINDOW, Len(s) - 1)
    IN  IF last_loss # I(0)
        THEN RSub(I(100), RDiv(I(100), RAdd(I(1), RDiv(last_gain, last_loss))))
        ELSE I(100)

\* process_single_stock(file) of stock_scanner_go.py, s the rows of the file:
\* whether it returns a row, with the values it computed on the way
process_single_stock(s) ==
    IF Len(s) < LIVE_MIN_LEN THEN [NotSelected EXCEPT !.short = TRUE]
    ELSE
    LET n     == Len(s) - 1
        c     == I(s[n + 1].close)
        prev  == I(s[n].close)
        rsi   == last_rsi6(s)
        k     == EwmRun([j \in 1..Len(s) |-> rsv(s, j - 1)], EWM_COM, n + 1).w
        m5    == RollingMean(closes(s), MA_SHORT, n)
        m20   == RollingMean(closes(s), MA_MID, n)
        m60   == RollingMean(closes(s), MA_LONG, n)
        bias  == RMul(RDiv(RSub(c, m20), m20), I(100))
        vm5   == IF n < VOL_WINDOW THEN NaN
                 ELSE Norm(<<SumRange(vols(s), n - VOL_WINDOW + 1, n), VOL_WINDOW>>)
        ratio == RDiv(I(s[n + 1].vol), vm5)
        incr  == s[n + 1].vol > s[n].vol
        potential == RMul(RDiv(RSub(m60, c), c), I(100))
        change    == RMul(RDiv(RSub(c, prev), prev), I(100))
        turn  == RollingMean([j \in 1..Len(s) |-> s[j].turnover], TURNOVER_WINDOW, n)
    IN  [selected |->
            /\ FGe(c, I(MIN_PRICE))
            /\ FLe(turn, I(MAX_AVG_TURNOVER_30))
            /\ FLe(rsi, I(RSI6_MAX))
            /\ FLe(k, I(KDJ_K_MAX))
            /\ FLe(I(MIN_BIAS_20), bias) /\ FLe(bias, I(MAX_BIAS_20))
            /\ FGe(c, RMul(m5, STAND_STILL_THRESHOLD))
            /\ incr
            /\ FLe(MIN_VOLUME_RATIO, ratio) /\ FLe(ratio, MAX_VOLUME_RATIO)
            /\ FGe(potential, I(MIN_PROFIT_POTENTIAL))
            /\ FLe(change, I(MAX_TODAY_CHANGE)),
         short |-> FALSE, rsi6 |-> rsi, kdj_k |-> k, vol_ma5 |-> vm5]

-----------------------------------------------------------------------------
(* The inputs of the indicator checks: a prefix followed by rows drawn     *)
(* freely.  On a flat prefix RSV is NaN (high = low), so K starts with the *)
(* first row that moves.                                                   *)

FlatRow == Row(100, 100, 100, 10, 1)
Fall == Row(80, 80, 80, 10, 1)
FallQuiet == Row(80, 80, 80, 8, 1)
Rise == Row(81, 81, 80, 10, 1)

IndRows == {FlatRow, Fall, FallQuiet, Rise}

Flat(n) == [k \in 1..n |-> FlatRow]

\* prefixes: too short for the long windows; long enough for MA60 and for the
\* live scanner; and a long one followed by a fall of 20% that stays down
\* for four days
Prefixes ==
    { Flat(KDJ_WINDOW - 1),
      Flat(LIVE_MIN_LEN - 3),
      Flat(LIVE_MIN_LEN - 4) \o <<Fall, Fall, Fall, FallQuiet>> }

\* a series that moves once and then stays put for nine days, so that the
\* 9-day window is flat again at its last bar
StillSeries == Flat(KDJ_WINDOW - 1) \o <<Rise>> \o [k \in 1..KDJ_WINDOW |-> Fall]

IndSeries ==
    { pre \o t : <<pre, t>> \in Prefixes \X SeqsUpTo(IndRows, MaxTail) }
        \cup {StillSeries}

nonInd == <<simVars, drvVars, auxVars>>

\* calculate_indicators on the whole series, and the predicate at idx
CalcFull ==
    /\ ind_pc = "start"
    /\ ind_full' = Snapshot(px, idx)
    /\ hit_full' = EntrySignal(px, idx, ind_full')
    /\ ind_pc' = "full"
    /\ UNCHANGED <<px, idx, ind_trunc, hit_trunc, ind_c, live, nonInd>>

\* the same on the series cut after idx
CalcTrunc ==
    /\ ind_pc = "full"
    /\ ind_trunc' = Snapshot(SubSeq(px, 1, idx + 1), idx)
    /\ hit_trunc' = EntrySignal(SubSeq(px, 1, idx + 1), idx, ind_trunc')
    /\ ind_pc' = "done"
    /\ UNCHANGED <<px, idx, ind_full, hit_full, ind_c, live, nonInd>>

\* strategy C's calculate_indicators on the whole series, and is_vol at idx
CalcC ==
    /\ ind_pc = "done"
    /\ ind_c' = SnapshotC(px, idx)
    /\ ind_pc' = "c"
    /\ UNCHANGED <<px, idx, ind_full, hit_full, ind_trunc, hit_trunc, live, nonInd>>

\* the live scanner on the file that ends with bar idx
CalcLive ==
    /\ ind_pc = "c"
    /\ live' = process_single_stock(SubSeq(px, 1, idx + 1))
    /\ ind_pc' = "live"
    /\ UNCHANGED <<px, idx, ind_full, hit_full, ind_trunc, hit_trunc, ind_c, nonInd>>

IndInit ==
    /\ px \in IndSeries
    /\ idx \in (Len(px) - 3)..(Len(px) - 1)
    /\ ind_pc = "start"
    /\ ind_full = <<>> /\ ind_trunc = <<>>
    /\ hit_full = FALSE /\ hit_trunc = FALSE
    /\ ind_c = <<>> /\ live = <<>>

InitInd == IndInit /\ SimIdle /\ DrvIdle /\ AuxIdle

NextInd == CalcFull \/ CalcTrunc \/ CalcC \/ CalcLive

SpecInd == InitInd /\ [][NextInd]_vars

\* Files as process_file scans them: at least 100 rows, and an index i of
\* "for i in range(60, len(df) - 20)".  The fall and the rows drawn freely
\* sit around the first scanned indices; the rest of the file is flat.
ScanSeries ==
    { Flat(n) \o <<Fall, Fall, Fall, FallQuiet>> \o t \o Flat(SCAN_TAIL + SCAN_TAIL) :
        <<n, t>> \in {SCAN_FIRST - 4, SCAN_FIRST - 3, SCAN_FIRST} \X SeqsUpTo(IndRows, MaxTail) }

ScanInit ==
    /\ px \in ScanSeries
    /\ Len(px) >= MIN_LEN
    /\ idx \in SCAN_FIRST..(Len(px) - SCAN_TAIL - 1)
    /\ idx >= Len(px) - 2 * SCAN_TAIL - 2 /\ idx <= Len(px) - 2 * SCAN_TAIL
    /\ ind_pc = "start"
    /\ ind_full = <<>> /\ ind_trunc = <<>>
    /\ hit_full = FALSE /\ hit_trunc = FALSE
    /\ ind_c = <<>> /\ live = <<>>

InitScan == ScanInit /\ SimIdle /\ DrvIdle /\ AuxIdle

SpecScan == InitScan /\ [][NextInd]_vars

-----------------------------------------------------------------------------
(* stock_data_downloader.py.  A file is a sequence of lines; a line keeps  *)
(* the separator it was written with and its cells.  The columns are cut   *)
(* down to the date, the code and the close (TARGET_COLUMNS has twelve).   *)
(* A date is a day number; its text form keeps the separator of the date   *)
(* string ("slash" for 2024/01/05, "dash" for 2024-01-05).                 *)

NameCell(n) == [kind |-> "name", text |-> n, v |-> 0]
DateCell(d) == [kind |-> "date", text |-> "slash", v |-> d]
NumCell(x) == [kind |-> "num", text |-> "", v |-> x]

\* an empty field of a short row, read as NaN
NanCell == [kind |-> "nan", text |-> "", v |-> 0]

TARGET_COLUMNS == <<"date", "code", "close">>

Line(sp, cs) == [sep |-> sp, cells |-> cs]

Absent == [exists |-> FALSE, lines |-> <<>>]
Stored(ls) == [exists |-> TRUE, lines |-> ls]

\* symbol_yf, e.g. 000551.SZ
Symbols == { [code |-> 551, exch |-> "SZ"], [code |-> 600000, exch |-> "SS"] }

\* "symbol_plain = symbol_yf.split('.')[0]"
symbol_plain(sym) == sym.code

Codes == { symbol_plain(sym) : sym \in Symbols }

\* the close the data source reports for a day
CloseOf(d) == 1000 + d

\* process_data_frame: one row per bar, the date as strftime('%Y/%m/%d')
process_data_frame(days, code) ==
    [k \in 1..Len(days) |-> <<DateCell(days[k]), NumCell(code), NumCell(CloseOf(days[k]))>>]

HeaderLine(sp) == Line(sp, [k \in 1..Len(TARGET_COLUMNS) |-> NameCell(TARGET_COLUMNS[k])])

\* DataFrame.to_csv(..., sep=sp): the lines it writes, with or without header
to_csv(rows, hdr, sp) ==
    (IF hdr THEN <<HeaderLine(sp)>> ELSE <<>>) \o [k \in 1..Len(rows) |-> Line(sp, rows[k])]

\* the fields pd.read_csv (separator ",") cuts a line into: a line written
\* with commas gives one field per cell, a line written with tabs is a
\* single field holding the whole text
Fields(line) ==
    IF line.sep = "comma" THEN [k \in 1..Len(line.cells) |-> <<line.cells[k]>>]
    ELSE <<line.cells>>

\* pd.read_csv(file_path): EmptyDataError for a file without lines,
\* ParserError for a row with more fields than the header; short rows are
\* filled with NaN
read_csv(f) ==
    IF f.lines = <<>> THEN [ok |-> FALSE, columns |-> <<>>, rows |-> <<>>]
    ELSE LET columns == Fields(f.lines[1])
             rows    == [k \in 1..(Len(f.lines) - 1) |-> Fields(f.lines[k + 1])]
         IN  IF \E k \in DOMAIN rows : Len(rows[k]) > Len(columns)
             THEN [ok |-> FALSE, columns |-> <<>>, rows |-> <<>>]
             ELSE [ok |-> TRUE, columns |-> columns,
                   rows |-> [k \in DOMAIN rows |->
                               [j \in 1..Len(columns) |->
                                   IF j <= Len(rows[k]) THEN rows[k][j] ELSE <<NanCell>>]]]

\* position of the column called name, 0 if there is none (KeyError)
ColumnOf(columns, name) ==
    IF \E j \in DOMAIN columns : columns[j] = <<NameCell(name)>>
    THEN CHOOSE j \in DOMAIN columns : columns[j] = <<NameCell(name)>>
    ELSE 0

\* "str(...).replace('/', '-')"
ReplaceSlash(field) ==
    [j \in DOMAIN field |->
        IF field[j].kind = "date" THEN [field[j] EXCEPT !.text = "dash"] ELSE field[j]]

\* pd.to_datetime(text).date(): a date string parses, anything else raises
IsDateText(field) == Len(field) = 1 /\ field[1].kind = "date"
to_datetime(field) == field[1].v

\* what ticker.history can do: return the bars, return nothing, or raise
Replies == {"data", "empty", "raise"}

\* the bars of days a..b, in order
DaysFrom(a, b) == [k \in 1..(b - a + 1) |-> a + k - 1]

\* the result of one download_item call: the file it leaves, the value it
\* returns, and what it did
Result(f, r, d) == [file |-> f, ret |-> r, did |-> d]

\* "if not os.path.exists(file_path): data = ticker.history(period=max) ..."
FullDownload(code, reply) ==
    IF reply = "raise" THEN Result(Absent, FALSE, "remote_error")
    ELSE IF reply = "data"
         THEN Result(Stored(to_csv(process_data_frame(DaysFrom(1, today), code), TRUE, "tab")),
                     TRUE, "full")
         ELSE Result(Absent, TRUE, "nothing")

\* the branch for an existing file with rows
Increment(f, code, reply) ==
    LET existing_df == read_csv(f)
        col         == ColumnOf(existing_df.columns, "date")
        last        == existing_df.rows[Len(existing_df.rows)]
        last_date_str == ReplaceSlash(last[col])
        last_date   == to_datetime(last_date_str)
    IN  IF col = 0 \/ ~IsDateText(last_date_str) THEN Result(f, FALSE, "read_error")
        ELSE IF last_date >= today THEN Result(f, TRUE, "skip")
        ELSE IF reply = "raise" THEN Result(f, FALSE, "remote_error")
        ELSE IF reply = "data"
             THEN Result(Stored(f.lines \o
                          to_csv(process_data_frame(DaysFrom(last_date + 1, today), code),
                                 FALSE, "tab")),
                         TRUE, "append")
             ELSE Result(f, TRUE, "nothing")

\* download_item(symbol_yf) on file f
download_item(f, code, reply) ==
    IF f.exists
    THEN LET existing_df == read_csv(f)
         IN  IF ~existing_df.ok THEN Result(f, FALSE, "read_error")
             ELSE IF existing_df.rows # <<>> THEN Increment(f, code, reply)
             ELSE FullDownload(code, reply)
    ELSE FullDownload(code, reply)

nonDl == <<simVars, drvVars, indVars, trdVars>>

DownloadItem(sym) ==
    \E reply \in Replies :
        LET code == symbol_plain(sym)
            res  == download_item(fs[code], code, reply)
        IN  /\ fs' = [fs EXCEPT ![code] = res.file]
            /\ dl_ret' = [dl_ret EXCEPT ![code] = IF res.ret THEN "True" ELSE "False"]
            /\ dl_did' = [dl_did EXCEPT ![code] = res.did]
            /\ dl_prior' = [dl_prior EXCEPT ![code] = fs[code]]
            /\ UNCHANGED <<today, nonDl>>

\* midnight
NextDay ==
    /\ today < MaxDay
    /\ today' = today + 1
    /\ UNCHANGED <<fs, dl_ret, dl_did, dl_prior, nonDl>>

\* files the directory may hold before the first call: none, or a file in
\* the comma-separated layout the backtests read, with or without rows
LegacyFiles ==
    { Absent,
      Stored(to_csv(<<>>, TRUE, "comma")),
      Stored(to_csv(process_data_frame(DaysFrom(1, 1), 0), TRUE, "comma")) }

DlInit ==
    /\ fs \in [Codes -> LegacyFiles]
    /\ today = 1
    /\ dl_ret = [c \in Codes |-> "none"]
    /\ dl_did = [c \in Codes |-> "none"]
    /\ dl_prior = [c \in Codes |-> Absent]

InitDownload == DlInit /\ SimIdle /\ DrvIdle /\ IndIdle /\ TrdIdle

NextDownload == (\E sym \in Symbols : DownloadItem(sym)) \/ NextDay

SpecDownload == InitDownload /\ [][NextDownload]_vars

-----------------------------------------------------------------------------
(* The claims about the simulators, stated from the series alone *)

EntryClose == df[start_idx + 1].close
HighOn(d) == df[start_idx + d + 1].high
LowOn(d) == df[start_idx + d + 1].low
CloseOn(d) == df[start_idx + d + 1].close

SetMax(S) == CHOOSE x \in S : \A y \in S : y <= x

\* the days after the entry that lie within the horizon and the series
DaysAvail == Min(max_days, Len(df) - 1 - start_idx)

\* max of the entry close and the highs of days 1..d
PeakUpTo(d) == SetMax({EntryClose} \cup { HighOn(k) : k \in 1..d })

\* the day's low gives a return <= -5%
LowStops(d) == (LowOn(d) - EntryClose) * 100 <= (-5) * EntryClose

\* peak return since entry >= 10% and drawback ratio >= 0.3
TrailHolds(d) ==
    /\ (PeakUpTo(d) - EntryClose) * 100 >= 10 * EntryClose
    /\ (PeakUpTo(d) - CloseOn(d)) * 10 >= 3 * (PeakUpTo(d) - EntryClose)

\* an exit of simulate_trade fires on day d
ExitFires(d) == LowStops(d) \/ TrailHolds(d)

OpenBefore(d) == \A k \in 1..(d - 1) : ~ExitFires(k)

\* C1: if the low of some day d within the horizon and the series gives a
\* return <= -5% and no exit fired before d, the trade ends stopped out and
\* the reported return is exactly -5.0, whatever the later bars are
\* (simulate_trade and the inline 10-day loop).
C1_StopLossPinned ==
    pc = "done" =>
        /\ variant = "go" =>
              \A d \in 1..DaysAvail :
                  (LowStops(d) /\ OpenBefore(d)) =>
                      /\ reason = "stop"
                      /\ ret = <<-5, 1>>
                      /\ exit_idx = start_idx + d
        /\ variant = "c" =>
              \A d \in 1..DaysAvail :
                  (LowStops(d) /\ \A k \in 1..(d - 1) : ~LowStops(k)) =>
                      /\ is_stopped
                      /\ final_ret = <<-5, 1>>
                      /\ report.ret = -500
                      /\ report.status = "stopped"
                      /\ exit_idx = start_idx + d

\* a stop-loss exit with a later bar that trades above the entry
C1_Witness ==
    /\ pc = "done" /\ variant = "go" /\ reason = "stop"
    /\ exit_idx - start_idx < DaysAvail
    /\ HighOn(exit_idx - start_idx + 1) > EntryClose
    /\ LowOn(exit_idx - start_idx) * 100 < 95 * EntryClose

\* C2: on a day where both the stop-loss condition and the trailing-stop
\* condition hold (the trade still open), simulate_trade returns -5.0, not
\* the trailing-stop value; and a trade takes exactly one exit: once it has
\* returned, its result never changes.
C2_StopLossFirst ==
    /\ [](pc = "done" /\ variant = "go" =>
            \A d \in 1..DaysAvail :
                (LowStops(d) /\ TrailHolds(d) /\ OpenBefore(d)) =>
                    reason = "stop" /\ ret = <<-5, 1>>)
    /\ [][pc = "done" => (pc' = "done" /\ ret' = ret /\ reason' = reason
                          /\ exit_idx' = exit_idx)]_vars

C2_Witness ==
    /\ pc = "done" /\ variant = "go" /\ reason = "stop"
    /\ LowStops(exit_idx - start_idx) /\ TrailHolds(exit_idx - start_idx)

\* C3: whenever simulate_trade returns through the trailing-stop branch on
\* day d, the running peak (max of the entry close and the highs of days
\* 1..d) is at least entry_close * (1 + 10/100).
C3_TrailingNeedsTrigger ==
    (pc = "done" /\ variant = "go" /\ reason = "trail") =>
        /\ max_price = PeakUpTo(exit_idx - start_idx)
        /\ max_price * 100 >= EntryClose * (100 + 10)

C3_Witness ==
    /\ pc = "done" /\ variant = "go" /\ reason = "trail"
    /\ max_price * 100 = EntryClose * 110

\* the scenario of the specification: entry 10.00, the peak reaches 11.00 on
\* day 5, day 6 closes at 10.65, the trade is still open on day 6
TrailScenario ==
    /\ variant = "go" /\ EntryClose = 1000 /\ DaysAvail >= 6
    /\ PeakUpTo(4) < 1100 /\ PeakUpTo(5) = 1100 /\ PeakUpTo(6) = 1100
    /\ CloseOn(6) = 1065
    /\ OpenBefore(6) /\ ~LowStops(6)

\* C4: on the first day d on which the trailing-stop condition holds and no
\* stop-loss fires (the trade being open until then), simulate_trade exits
\* on day d and returns max(close_d return, 2.0); every trailing-stop exit
\* reports at least 2.0; in the scenario the trade exits on day 6 with 6.5.
C4_TrailingResult ==
    (pc = "done" /\ variant = "go") =>
        /\ \A d \in 1..DaysAvail :
               (~LowStops(d) /\ TrailHolds(d) /\ OpenBefore(d)) =>
                   /\ reason = "trail"
                   /\ exit_idx = start_idx + d
                   /\ REq(ret, RMax(Pct(CloseOn(d), EntryClose), <<2, 1>>))
        /\ reason = "trail" => RLe(<<2, 1>>, ret)
        /\ TrailScenario =>
               reason = "trail" /\ exit_idx = start_idx + 6 /\ REq(ret, <<65, 10>>)

C4_Witness ==
    /\ pc = "done" /\ TrailScenario
    /\ reason = "trail" /\ exit_idx = start_idx + 6 /\ REq(ret, <<65, 10>>)

\* C5: if no stop-loss and no trailing-stop condition fires on any day within
\* the horizon and the series, simulate_trade returns the close-to-entry
\* return of bar e = min(entry_index + horizon, series_length - 1); the inline
\* loop reports the close of the last bar of its (possibly shortened) 10-day
\* window with the status of a trade held to expiry.
C5_HorizonExpiry ==
    pc = "done" =>
        /\ (variant = "go" /\ \A d \in 1..DaysAvail : ~ExitFires(d)) =>
              LET e == Min(start_idx + max_days, Len(df) - 1)
              IN  /\ reason = "expired"
                  /\ exit_idx = e
                  /\ ret = <<(df[e + 1].close - EntryClose) * 100, EntryClose>>
        /\ (variant = "c" /\ \A d \in 1..DaysAvail : ~LowStops(d)) =>
              LET e == Min(start_idx + 10, Len(df) - 1)
              IN  /\ ~is_stopped
                  /\ exit_idx = e
                  /\ final_ret = <<(df[e + 1].close - EntryClose) * 100, EntryClose>>
                  /\ report.ret = Round2(final_ret)
                  /\ report.status = "expired"

\* expiry at a series end that comes before the horizon, on a moved price
C5_Witness ==
    /\ pc = "done" /\ variant = "go" /\ reason = "expired"
    /\ start_idx + max_days > Len(df) - 1
    /\ exit_idx = Len(df) - 1 /\ exit_idx > start_idx
    /\ ret[1] # 0

\* C6, as claimed: for every call with 0 <= entry_index <= series_length - 1
\* and horizon >= 1 the exit day lies in (entry_index, entry_index + horizon]
\* and is <= series_length - 1.
C6_ExitDayInWindow_AsClaimed ==
    pc = "done" =>
        /\ start_idx < exit_idx
        /\ exit_idx <= start_idx + max_days
        /\ exit_idx <= Len(df) - 1

\* C6, amended: the same for every call with 0 <= entry_index <=
\* series_length - 2 (an entry on the last bar has no later bar: simulate_trade
\* then returns 0.0, computed from the entry bar itself).
C6_ExitDayInWindow ==
    (pc = "done" /\ start_idx <= Len(df) - 2) =>
        /\ start_idx < exit_idx
        /\ exit_idx <= start_idx + max_days
        /\ exit_idx <= Len(df) - 1

\* an exit on the last day of the horizon, inside the series
C6_Witness ==
    /\ pc = "done" /\ variant = "go" /\ start_idx <= Len(df) - 2
    /\ exit_idx = start_idx + max_days /\ exit_idx < Len(df) - 1
    /\ reason = "stop"

\* C7: with life-line day 3 and threshold +1%, a trade whose horizon is >= 3,
\* that is open after day 2 and not stopped out on day 3, and whose day-3
\* close-to-entry return is below 1%, exits on day 3 and returns that day's
\* actual return, whatever remains of the horizon.
C7_LifeLineExit ==
    (pc = "done" /\ variant = "go" /\ DaysAvail >= 3
       /\ OpenBefore(3) /\ ~LowStops(3)
       /\ (CloseOn(3) - EntryClose) * 100 < 1 * EntryClose) =>
        /\ exit_idx = start_idx + 3
        /\ REq(ret, Pct(CloseOn(3), EntryClose))

-----------------------------------------------------------------------------
(* The claims about the drivers, stated from the file descriptors alone *)

\* processing file f raises (the too-short return and strategy C's name test
\* come before any later error)
Raises(f) ==
    LET k == files[f]
    IN  /\ variant = "c" => k.board
        /\ \/ k.bad.at = "read"
           \/ k.len >= 100 /\ k.bad.at \in {"calc", "scan"}

\* the signals of a descriptor that its scan visits
Visited(k) ==
    IF k.len < 100 \/ (variant = "c" /\ ~k.board) THEN {}
    ELSE IF variant = "c"
         THEN { sg \in k.sig : sg.i >= 65 /\ sg.i >= k.len - 120 /\ sg.i <= k.len - 2 }
         ELSE { sg \in k.sig : sg.i >= 60 /\ sg.i <= k.len - 21 }

TradesFrom(f) == SelectSeq(all_trades, LAMBDA t : t.code = f)

MainOver == main_pc \in {"collected", "done", "no_signals"}

\* C8: a series whose processing raises contributes no trade, not even the
\* ones collected before the fault; every other series contributes exactly
\* its own signals; and the run reaches the aggregation (or the explicit
\* empty result) instead of aborting.
C8_ErrorIsolation ==
    /\ [](MainOver =>
            \A f \in Files :
                LET ts == TradesFrom(f)
                IN  IF Raises(f) THEN ts = <<>>
                    ELSE /\ Len(ts) = Cardinality(Visited(files[f]))
                         /\ \A sg \in Visited(files[f]) :
                                \E k \in 1..Len(ts) :
                                    /\ ts[k].date = sg.i
                                    /\ \A p \in Periods : ts[k].r[p] = sg.r[p])
    /\ <>(main_pc \in {"done", "no_signals"})

\* a run that reached the statistics although one series raised after a
\* trade had been collected for it
C8_Witness ==
    /\ main_pc = "done"
    /\ \E f \in Files :
          /\ Raises(f) /\ files[f].bad.at = "scan"
          /\ \E sg \in files[f].sig : sg.i < files[f].bad.i
          /\ results[f] # <<>>
          /\ TradesFrom(f) = <<>>
    /\ all_trades # <<>>

RECURSIVE SumOver(_, _)
SumOver(S, w) ==
    IF S = {} THEN 0
    ELSE LET x == CHOOSE y \in S : TRUE
         IN  w[x] + SumOver(S \ {x}, w)

\* how many files of the universe have descriptor k
Copies(k) == Cardinality({f \in Files : files[f] = k})

\* the files that contribute: they do not raise
Sound == { files[f] : f \in { g \in Files : ~Raises(g) } }

TotalCount == SumOver(Sound, [k \in Sound |-> Copies(k) * Cardinality(Visited(k))])

TotalWins(p) ==
    SumOver(Sound, [k \in Sound |->
        Copies(k) * Cardinality({ sg \in Visited(k) : sg.r[p] > 0 })])

TotalReturn(p) ==
    SumOver(Sound, [k \in Sound |->
        Copies(k) * SumOver(Visited(k), [sg \in Visited(k) |-> sg.r[p]])])

\* C9: for each holding period the driver reports win rate = trades with
\* return > 0 over trades, mean return = arithmetic mean, count = number of
\* trades; the values depend on the multiset of files only, not on the order
\* in which the pool starts or completes the tasks.
C9_OrderIndependent ==
    /\ main_pc = "done" =>
          \A p \in Periods :
              /\ summary[p].count = TotalCount
              /\ summary[p].win_rate = Round2(<<TotalWins(p) * 100, TotalCount>>)
              /\ summary[p].mean = Round2(<<TotalReturn(p), TotalCount * 100>>)
    /\ main_pc = "no_signals" => TotalCount = 0

\* statistics of a run in which the second file's task completed first and
\* both files contributed trades with different returns
C9_Witness ==
    /\ main_pc = "done" /\ variant = "go"
    /\ finish_order[1] # 1
    /\ \A f \in {1, 2} : TradesFrom(f) # <<>>
    /\ files[1] # files[2]
    /\ \E p \in Periods : 0 < summary[p].win_rate /\ summary[p].win_rate < 10000

-----------------------------------------------------------------------------
(* More claims about the simulators *)

\* the walk ended on a day it inspected (stop-loss or trailing stop)
EarlyExit ==
    /\ pc = "done"
    /\ \/ variant = "go" /\ reason \in {"stop", "trail"}
       \/ variant = "c" /\ is_stopped

\* the number of days after the entry the walk has inspected so far
Inspected == IF EarlyExit THEN day ELSE day - 1

\* C14: the walk inspects at most min(h, series_length - 1 - entry_index) days
\* after the entry, and it always ends by returning a value.
C14_Terminates ==
    /\ [](Inspected <= Min(max_days, Len(df) - 1 - start_idx))
    /\ <>(pc = "done")

\* a walk that ran out of bars before its horizon, after inspecting them all
C14_Witness ==
    /\ pc = "done" /\ ~EarlyExit
    /\ Len(df) - 1 - start_idx < max_days
    /\ Inspected = Len(df) - 1 - start_idx
    /\ Inspected >= 2

\* the horizons whose call ended by stop-loss or trailing stop
EarlyHorizons == { h \in DOMAIN trade : trade[h].reason \in {"stop", "trail"} }

\* C17: if simulate_trade exits by stop-loss or trailing stop on day d for
\* some horizon, it returns that same value for every horizon h >= d, and for
\* every horizon h < d the plain close-to-entry return of day h.
C17_HorizonPrefix ==
    pc = "recorded" =>
        \A h1 \in EarlyHorizons :
            LET d == trade[h1].exit_idx - start_idx
            IN  \A h \in DOMAIN trade :
                    /\ h >= d => trade[h].ret = trade[h1].ret
                    /\ h < d => /\ trade[h].reason = "expired"
                                /\ REq(trade[h].ret, Pct(CloseOn(h), EntryClose))

\* a signal whose walk exits early on a day d >= 2, with a horizon shorter
\* than d and two horizons that reach d, and different returns on either side
C17_Witness ==
    /\ pc = "recorded"
    /\ \E h1 \in EarlyHorizons :
          LET d == trade[h1].exit_idx - start_idx
          IN  /\ d >= 2
              /\ \E h \in DOMAIN trade : h < d /\ ~REq(trade[h].ret, trade[h1].ret)
              /\ \E h \in DOMAIN trade : h >= d /\ h # h1

\* C18: for every signal the backtest driver records and every configured
\* period p, i + p <= len - 1: the walk never runs out of bars, and a return
\* at expiry is computed from the close of day i + p exactly.
C18_FullHorizon ==
    /\ start_idx + max_days <= Len(df) - 1
    /\ (pc = "loop" /\ day <= max_days) => start_idx + day < Len(df)
    /\ (pc = "done" /\ reason = "expired") =>
          /\ exit_idx = start_idx + max_days
          /\ REq(ret, Pct(CloseOn(max_days), EntryClose))

\* the last scanned index with the longest period, expiring on the last bar
\* of the file at a close that differs from the entry's
C18_Witness ==
    /\ pc = "done" /\ reason = "expired"
    /\ start_idx = Len(df) - SCAN_TAIL - 1
    /\ start_idx + max_days = Len(df) - 1
    /\ CloseOn(max_days) # EntryClose

-----------------------------------------------------------------------------
(* The claims about the indicators *)

IndicatorNames ==
    {"rsi6", "kdj_k", "ma5", "ma20", "ma60", "bias20", "avg_turnover_30",
     "vol_ma5", "vol_ratio", "vol_increase"}

\* C10: every indicator value at index i and the entry predicate at i are the
\* same on the full series and on the series truncated to bars [0..i].
C10_NoLookAhead ==
    ind_pc = "done" =>
        /\ \A name \in IndicatorNames : ind_full[name] = ind_trunc[name]
        /\ hit_full = hit_trunc

\* an index with later bars at which every indicator is defined and the
\* entry predicate holds
C10_Witness ==
    /\ ind_pc = "done"
    /\ idx < Len(px) - 1
    /\ hit_full /\ hit_trunc
    /\ \A name \in IndicatorNames \ {"vol_increase"} : IsFin(ind_full[name])
    /\ px[idx + 2] # px[idx + 1]

\* a value that is undefined, or a number in [0, 100]
InPercentRange(v) == IsNaN(v) \/ (FLe(I(0), v) /\ FLe(v, I(100)))

\* C11: wherever it is defined, RSI(6) lies in [0, 100] and so does KDJ-K, in
\* the oversold backtest, in strategy C and in the live scanner.
C11_OscillatorsBounded ==
    ind_pc = "live" =>
        /\ InPercentRange(ind_full.rsi6) /\ InPercentRange(ind_full.kdj_k)
        /\ InPercentRange(ind_c.RSI6) /\ InPercentRange(ind_c.K)
        /\ InPercentRange(live.rsi6) /\ InPercentRange(live.kdj_k)

\* all of them defined, RSI strictly inside the range and K above zero
C11_Witness ==
    /\ ind_pc = "live"
    /\ IsFin(ind_full.rsi6) /\ FLt(I(0), ind_full.rsi6) /\ FLt(ind_full.rsi6, I(100))
    /\ IsFin(ind_c.RSI6) /\ IsFin(live.rsi6)
    /\ IsFin(ind_full.kdj_k) /\ FLt(I(0), ind_full.kdj_k)
    /\ IsFin(ind_c.K) /\ IsFin(live.kdj_k)

\* the 6-day rolling average gain and loss at idx
GainAt == RollingMean(gain_terms(px), RSI_WINDOW, idx)
LossAt == RollingMean(loss_terms(px), RSI_WINDOW, idx)

\* C12: where the 6-day average loss is exactly zero and the average gain is
\* positive, every variant's RSI(6) is 100 (neither undefined nor an error).
C12_ZeroLossIsFull ==
    (ind_pc = "live" /\ LossAt = I(0) /\ FLt(I(0), GainAt)) =>
        /\ ind_full.rsi6 = I(100)
        /\ ind_c.RSI6 = I(100)
        /\ (~live.short => live.rsi6 = I(100))

\* the inputs of the entry predicate at idx: the indicators it compares, and
\* the RSV that KDJ-K smooths
PredicateInputs ==
    {ind_full.rsi6, ind_full.kdj_k, ind_full.ma5, ind_full.ma60, ind_full.bias20,
     ind_full.avg_turnover_30, ind_full.vol_ratio, rsv(px, idx)}

\* C13: an undefined input of the entry predicate (warm-up not reached, or a
\* zero denominator such as rolling high = rolling low in RSV) makes the
\* predicate false, and the undefined value is not replaced by a number: where
\* RSV is undefined, KDJ-K is undefined too instead of a previous day's value.
C13_FailClosed ==
    ind_pc = "live" =>
        /\ (\E v \in PredicateInputs : ~IsFin(v)) => ~hit_full
        /\ ~IsFin(rsv(px, idx)) => ~IsFin(ind_full.kdj_k)

\* the mean of the volumes of days idx-5 .. idx-1, from the series alone
LaggedVolumeMean ==
    IF idx < 5 THEN NaN
    ELSE Norm(<<SumOver((idx - 4)..idx, [k \in (idx - 4)..idx |-> px[k].vol]), 5>>)

\* C15: in every variant with a volume band, the 5-day average volume that
\* day idx's volume is compared with is the mean of days idx-5 .. idx-1 only.
C15_LaggedBaseline ==
    ind_pc = "live" =>
        /\ ind_full.vol_ma5 = LaggedVolumeMean
        /\ (~live.short => live.vol_ma5 = LaggedVolumeMean)
        /\ ind_c.MA5V = LaggedVolumeMean

\* C16: at every index the backtest scans, its entry predicate is true
\* exactly when the live scanner selects the file that ends with that bar.
C16_BacktestMatchesLive ==
    ind_pc = "live" => (hit_full <=> live.selected)

-----------------------------------------------------------------------------
(* The claim about the downloader *)

\* a file as the full download leaves it: header and rows, all tab-separated
FullyDownloaded(f) ==
    /\ f.exists /\ Len(f.lines) >= 2
    /\ \A k \in DOMAIN f.lines : f.lines[k].sep = "tab"

\* the dates stored in the rows of a file, in file order
StoredDates(f) == [k \in 1..(Len(f.lines) - 1) |-> f.lines[k + 1].cells[1].v]

\* the last call found a file written by a full download
AfterFull(c) == dl_did[c] # "none" /\ FullyDownloaded(dl_prior[c])

\* C19: a call that finds a file written by a full download reads its last
\* date back and either returns True leaving the file alone (up to date) or
\* appends only later bars and returns True; stored dates stay strictly
\* increasing and the file is never downloaded in full again.  (A failure of
\* the data source itself is not counted against the call.)
C19_FileRoundTrip ==
    \A c \in Codes :
        /\ AfterFull(c) =>
              \/ dl_did[c] = "remote_error"
              \/ /\ dl_ret[c] = "True"
                 /\ dl_did[c] \in {"skip", "append", "nothing"}
                 /\ dl_did[c] = "skip" => fs[c] = dl_prior[c]
                 /\ (dl_did[c] = "skip") <=>
                       (StoredDates(dl_prior[c])[Len(StoredDates(dl_prior[c]))] >= today)
        /\ fs[c].exists =>
              \A j, k \in DOMAIN StoredDates(fs[c]) :
                  j < k => StoredDates(fs[c])[j] < StoredDates(fs[c])[k]

=============================================================================
